---- MODULE Spec2Model ----
(***************************************************************************)
(* Model of examples/demo_pythonanywhere_com.py: four SQLAlchemy models    *)
(* (Person, Book, Publisher, Review) seeded by start_api, exposed through  *)
(* the safrs JSON:API layer and served by app.run.                         *)
(*                                                                         *)
(* Python strings are modelled as tuples of tokens: "" is <<>>, a literal  *)
(* "abc" is <<"abc">>, str(i) is <<i>> and + is \o.  None is <<"None">>.   *)
(* A uuid4 generated for a string primary key is <<"uuid", n>> with n a    *)
(* fresh counter value; hashlib.sha256(x).hexdigest() is <<"sha256", x>>.  *)
(***************************************************************************)
EXTENDS Integers, Sequences, FiniteSets, TLC

VARIABLES pc, i, nextId, nextPubId, People, Books, Publishers, Reviews,
          exposed, starts, served, request, response, logged

vars == <<pc, i, nextId, nextPubId, People, Books, Publishers, Reviews,
          exposed, starts, served, request, response, logged>>

store == <<People, Books, Publishers, Reviews>>

(***************************************************************************)
(* Bounds of the model.                                                    *)
(***************************************************************************)
\* start_api seeds NR_INSTANCES = 200 iterations (line 216); the model runs
\* the same loop over a small number of iterations.
NR_INSTANCES == 2
\* Number of HTTP requests the model serves after app.run.
MaxRequests == 2
\* page[limit] values 1..PageLimit and page numbers 0..MaxPage are requested.
PageLimit == 2
MaxPage == 1

(***************************************************************************)
(* Values                                                                  *)
(***************************************************************************)
None == <<"None">>
NULL == <<>>
Str(n) == <<n>>
Uuid(n) == <<"uuid", n>>
IntId(n) == <<"int", n>>
GhostId == <<"ghost">>
sha256(x) == <<"sha256", x>>
\* Review.created: default=datetime.datetime.now() is evaluated once, when the
\* class body runs, so every row gets the same value.
Review_created_default == <<"import_time">>

Range(s) == {s[k] : k \in 1..Len(s)}
Min(a, b) == IF a < b THEN a ELSE b

Restrict(f, S) == [x \in S |-> f[x]]

(***************************************************************************)
(* Schema: columns, column classes, primary keys                           *)
(***************************************************************************)
Models == {"Person", "Book", "Publisher", "Review"}

\* HiddenColumn.expose (the _leak variant: the flag left at the Column default)
HiddenColumn_expose_leak == TRUE
HiddenColumn_expose == FALSE

\* The class each column is declared with.
ColumnClass ==
    [Person    |-> [id |-> "Column", name |-> "Column", email |-> "Column",
                    comment |-> "DocumentedColumn", dob |-> "Column",
                    password |-> "HiddenColumn"],
     Book      |-> [id |-> "Column", title |-> "Column", reader_id |-> "Column",
                    author_id |-> "Column", publisher_id |-> "Column"],
     Publisher |-> [id |-> "Column", name |-> "Column"],
     Review    |-> [reader_id |-> "Column", book_id |-> "Column",
                    review |-> "Column", created |-> "Column"]]

Columns(model) == DOMAIN ColumnClass[model]

\* Column defaults (default=...; a column without one is None).
ColumnDefault ==
    [Person    |-> [id |-> NULL, name |-> <<>>, email |-> <<>>,
                    comment |-> <<"comment">>, dob |-> None, password |-> <<>>],
     Book      |-> [id |-> NULL, title |-> <<>>, reader_id |-> NULL,
                    author_id |-> NULL, publisher_id |-> NULL],
     Publisher |-> [id |-> NULL, name |-> <<>>],
     Review    |-> [reader_id |-> NULL, book_id |-> NULL, review |-> <<>>,
                    created |-> Review_created_default]]

\* Review's composite primary key (primary_key=True on both columns; the
\* _wide variant also marks the review column).
Review_primary_key_wide == {"reader_id", "book_id", "review"}
Review_primary_key == {"reader_id", "book_id"}

PrimaryKey(model) ==
    IF model = "Review" THEN Review_primary_key ELSE {"id"}

\* Relationship cascades.
Person_reviews_cascade == {"save-update", "delete"}
Person_books_read_cascade == {"save-update", "merge"}
Person_books_written_cascade == {"save-update", "merge"}

\* Review.http_methods (the _with_delete variant also allows DELETE)
Review_http_methods_with_delete == {"GET", "POST", "DELETE"}
Review_http_methods == {"GET", "POST"}

\* SQLALCHEMY_DATABASE_URI="sqlite:///" : SQLite leaves FOREIGN KEY
\* constraints unenforced unless "PRAGMA foreign_keys=ON" is issued on the
\* connection, and nothing in the program issues it.  PRIMARY KEY uniqueness
\* is always enforced.
ForeignKeysEnforced == FALSE

(***************************************************************************)
(* Construction and serialization                                          *)
(***************************************************************************)
\* SAFRSBase.__init__: one value per table column, from kwargs or the default.
SAFRSBase__init__(model, kwargs) ==
    [c \in Columns(model) |->
        IF c \in DOMAIN kwargs THEN kwargs[c] ELSE ColumnDefault[model][c]]

\* Publisher.__init__: custom_field is popped and dropped.
Publisher__init__(kwargs) ==
    LET custom_field == IF "custom_field" \in DOMAIN kwargs
                        THEN kwargs["custom_field"] ELSE None
        rest == Restrict(kwargs, DOMAIN kwargs \ {"custom_field"})
    IN SAFRSBase__init__("Publisher", rest)

\* getattr(column, "expose", True)
Expose(cls) == IF cls = "HiddenColumn" THEN HiddenColumn_expose ELSE TRUE

\* The exposed attribute names; "id" is carried outside the attributes.
jsonapi_attrs(model) ==
    {c \in Columns(model) : Expose(ColumnClass[model][c]) /\ c # "id"}

SAFRSBase_to_dict(model, row) == Restrict(row, jsonapi_attrs(model))

\* Publisher.to_dict (the _plain variant leaves the base serialization as is)
Publisher_to_dict_plain(row) == SAFRSBase_to_dict("Publisher", row)
Publisher_to_dict(row) ==
    LET result == SAFRSBase_to_dict("Publisher", row)
    IN [k \in DOMAIN result \cup {"custom_field"} |->
           IF k = "custom_field" THEN <<"some customization">> ELSE result[k]]

to_dict(model, row) ==
    IF model = "Publisher" THEN Publisher_to_dict(row)
    ELSE SAFRSBase_to_dict(model, row)

jsonapi_id(model, row) ==
    IF model = "Review" THEN row.reader_id \o <<"_">> \o row.book_id
    ELSE row.id

Encode(model, row) ==
    [type |-> model, id |-> jsonapi_id(model, row),
     attributes |-> to_dict(model, row)]

EncodeAll(model, rows) == [k \in 1..Len(rows) |-> Encode(model, rows[k])]

\* paginate(query): the rows at offset .. offset+limit-1 in table order, the
\* total count and the page links.
paginate(rows, offset, limit) ==
    [instances |-> SubSeq(rows, offset + 1, Min(offset + limit, Len(rows))),
     count     |-> Len(rows),
     links     |-> [self |-> offset,
                    next |-> offset + limit,
                    prev |-> IF offset > limit THEN offset - limit ELSE 0]]

jsonapi_format_response(model, data, links, count) ==
    [data |-> EncodeAll(model, data), links |-> links, count |-> count]

\* Person.my_rpc: the body of the returned SAFRSFormattedResponse (<<>> while
\* response.response is unset) and whether log.exception ran.  raises says
\* that one of the statements inside the try block raised.  (The _len_count
\* variant reports the length of the page instead of paginate's count.)
my_rpc_len_count(rows, offset, limit, raises) ==
    IF raises THEN [response |-> <<>>, logged |-> TRUE]
    ELSE LET page == paginate(rows, offset, limit)
             data == page.instances
         IN [response |-> <<jsonapi_format_response("Person", data, page.links,
                                                    Len(data))>>,
             logged |-> FALSE]
my_rpc(rows, offset, limit, raises) ==
    IF raises THEN [response |-> <<>>, logged |-> TRUE]
    ELSE LET page == paginate(rows, offset, limit)
             data == page.instances
         IN [response |-> <<jsonapi_format_response("Person", data, page.links,
                                                    page.count)>>,
             logged |-> FALSE]

\* Publisher._s_filter
Publisher_s_filter(rows, arg) == SelectSeq(rows, LAMBDA r : r.name = arg)

(***************************************************************************)
(* Store                                                                   *)
(***************************************************************************)
Table(model) ==
    CASE model = "Person"    -> People
      [] model = "Book"      -> Books
      [] model = "Publisher" -> Publishers
      [] model = "Review"    -> Reviews

Ids(rows) == {r.id : r \in Range(rows)}

\* PRIMARY KEY constraint of the Reviews table.
PKConflict(rows, row) ==
    \E r \in Range(rows) : \A c \in PrimaryKey("Review") : r[c] = row[c]

\* FOREIGN KEY constraints of the Reviews table.
ReviewFKValid(row) ==
    /\ row.reader_id \in Ids(People)
    /\ row.book_id \in Ids(Books)

(***************************************************************************)
(* Bootstrap: __main__ calls start_api, then app.run                       *)
(***************************************************************************)
NoRequest == [method |-> "", resource |-> "", endpoint |-> "", args |-> <<>>]
NoResponse == [status |-> 0, error |-> "", body |-> <<>>]

Init ==
    /\ pc = "main"
    /\ i = 0
    /\ nextId = 1
    /\ nextPubId = 1
    /\ People = <<>>
    /\ Books = <<>>
    /\ Publishers = <<>>
    /\ Reviews = <<>>
    /\ exposed = {}
    /\ starts = 0
    /\ served = 0
    /\ request = NoRequest
    /\ response = NoResponse
    /\ logged = 0

\* start_api up to db.create_all(): the tables exist and are empty.
start_api ==
    /\ pc = "main"
    /\ pc' = "seed"
    /\ starts' = starts + 1
    /\ i' = 0
    /\ UNCHANGED <<nextId, nextPubId, People, Books, Publishers, Reviews,
                   exposed, served, request, response, logged>>

\* for i in range(NR_INSTANCES) (the _one_more variant runs one iteration more)
InRange_one_more(k) == k <= NR_INSTANCES
InRange(k) == k < NR_INSTANCES

\* One iteration of the seeding loop, up to and including db.session.commit().
seed_iteration ==
    /\ pc = "seed"
    /\ InRange(i)
    /\ LET secret == sha256(i)
           reader == SAFRSBase__init__("Person",
                        [id |-> Uuid(nextId),
                         name |-> <<"Reader ">> \o Str(i),
                         email |-> <<"reader_email">> \o Str(i),
                         password |-> secret])
           author == SAFRSBase__init__("Person",
                        [id |-> Uuid(nextId + 1),
                         name |-> <<"Author ">> \o Str(i),
                         email |-> <<"author_email">> \o Str(i)])
           book0 == SAFRSBase__init__("Book",
                        [id |-> Uuid(nextId + 2),
                         title |-> <<"book_title">> \o Str(i)])
           review == SAFRSBase__init__("Review",
                        [reader_id |-> reader.id, book_id |-> book0.id,
                         review |-> <<"review ">> \o Str(i)])
           publisher == [Publisher__init__([name |-> <<"name">> \o Str(i)])
                            EXCEPT !.id = IntId(nextPubId)]
           book == [book0 EXCEPT !.publisher_id = publisher.id,
                                 !.reader_id = reader.id,
                                 !.author_id = author.id]
       IN /\ People' = People \o <<reader, author>>
          /\ Books' = Append(Books, book)
          /\ Publishers' = Append(Publishers, publisher)
          /\ Reviews' = Append(Reviews, review)
    /\ nextId' = nextId + 3
    /\ nextPubId' = nextPubId + 1
    /\ i' = i + 1
    /\ UNCHANGED <<pc, exposed, starts, served, request, response, logged>>

\* The loop is exhausted: SAFRSAPI(app, ...) and Admin(app, ...) are created.
seed_done ==
    /\ pc = "seed"
    /\ ~InRange(i)
    /\ pc' = "expose"
    /\ UNCHANGED <<i, nextId, nextPubId, People, Books, Publishers, Reviews,
                   exposed, starts, served, request, response, logged>>

\* for model in [Person, Book, Review, Publisher]: api.expose_object(model)
ExposeOrder == <<"Person", "Book", "Review", "Publisher">>

expose_object ==
    /\ pc = "expose"
    /\ Cardinality(exposed) < Len(ExposeOrder)
    /\ exposed' = exposed \cup {ExposeOrder[Cardinality(exposed) + 1]}
    /\ UNCHANGED <<pc, i, nextId, nextPubId, People, Books, Publishers,
                   Reviews, starts, served, request, response, logged>>

\* __main__: app.run(...) follows the return of start_api(...) (the _early
\* variant starts the server while start_api is still running).
app_run_enabled_early == pc \in {"seed", "expose"}
app_run_enabled == pc = "expose" /\ exposed = Range(ExposeOrder)

app_run ==
    /\ app_run_enabled
    /\ pc' = "serving"
    /\ UNCHANGED <<i, nextId, nextPubId, People, Books, Publishers, Reviews,
                   exposed, starts, served, request, response, logged>>

(***************************************************************************)
(* Request handling (app.run is single-threaded: one request per step)     *)
(***************************************************************************)
DefaultHttpMethods == {"GET", "POST", "PATCH", "DELETE"}

HttpMethods(model) ==
    IF model = "Review" THEN Review_http_methods ELSE DefaultHttpMethods

MethodNotAllowed == [status |-> 405, error |-> "MethodNotAllowed", body |-> <<>>]
NotFound == [status |-> 404, error |-> "NotFound", body |-> <<>>]
NoContent == [status |-> 204, error |-> "", body |-> <<>>]

ItemDocument(model, row) ==
    [data |-> <<Encode(model, row)>>,
     links |-> [self |-> 0, next |-> 0, prev |-> 0], count |-> 1]

\* app.run(..., threaded=False): requests are handled one at a time, in the
\* thread that seeded the in-memory database.
Serving == pc = "serving" /\ served < MaxRequests

Answer(req, resp) ==
    /\ request' = req
    /\ response' = resp
    /\ served' = served + 1
    /\ UNCHANGED <<pc, i, exposed, starts>>

\* SAFRSRestAPI.get on a collection
SAFRSRestAPI_get(model, rows, offset, limit) ==
    LET page == paginate(rows, offset, limit)
    IN [status |-> 200, error |-> "",
        body |-> <<jsonapi_format_response(model, page.instances, page.links,
                                           page.count)>>]

\* Review.get
Review_get(rows, offset, limit) == SAFRSRestAPI_get("Review", rows, offset, limit)

\* filter=<arg> goes through the model's _s_filter; <<>> is "no filter".
Query(model, flt) ==
    IF flt # <<>> /\ model = "Publisher"
    THEN Publisher_s_filter(Publishers, flt[1])
    ELSE Table(model)

FilterArgs(model) ==
    IF model = "Publisher" THEN {<<>>, << <<"name">> \o Str(0) >>} ELSE {<<>>}

GetCollection(model, flt, pageno) ==
    /\ Serving
    /\ model \in exposed
    /\ LET offset == pageno * PageLimit
           req == [method |-> "GET", resource |-> model, endpoint |-> "collection",
                   args |-> [filter |-> flt, offset |-> offset, limit |-> PageLimit]]
           rows == Query(model, flt)
           resp == IF "GET" \notin HttpMethods(model) THEN MethodNotAllowed
                   ELSE IF model = "Review" THEN Review_get(rows, offset, PageLimit)
                   ELSE SAFRSRestAPI_get(model, rows, offset, PageLimit)
       IN Answer(req, resp)
    /\ UNCHANGED <<nextId, nextPubId, People, Books, Publishers, Reviews, logged>>

\* GET of one item; k = 0 asks for an id no row has.
GetItem(model, k) ==
    /\ Serving
    /\ model \in exposed
    /\ LET req == [method |-> "GET", resource |-> model, endpoint |-> "item",
                   args |-> [id |-> IF k = 0 THEN GhostId
                                    ELSE jsonapi_id(model, Table(model)[k])]]
           resp == IF "GET" \notin HttpMethods(model) THEN MethodNotAllowed
                   ELSE IF k = 0 THEN NotFound
                   ELSE [status |-> 200, error |-> "",
                         body |-> <<ItemDocument(model, Table(model)[k])>>]
       IN Answer(req, resp)
    /\ UNCHANGED <<nextId, nextPubId, People, Books, Publishers, Reviews, logged>>

\* The store rejects a row: the framework's status for it is not fixed by
\* this program.
ConstraintErrorStatus == {400, 500}

\* POST /api/Reviews with attributes reader_id, book_id, review.
PostReview(reader_id, book_id) ==
    /\ Serving
    /\ "Review" \in exposed
    /\ LET row == SAFRSBase__init__("Review",
                     [reader_id |-> reader_id, book_id |-> book_id,
                      review |-> <<"posted">>])
           req == [method |-> "POST", resource |-> "Review",
                   endpoint |-> "collection", args |-> row]
       IN IF "POST" \notin HttpMethods("Review")
          THEN Answer(req, MethodNotAllowed) /\ UNCHANGED Reviews
          ELSE IF ForeignKeysEnforced /\ ~ReviewFKValid(row)
          THEN /\ Answer(req, [status |-> 400, error |-> "IntegrityError",
                               body |-> <<>>])
               /\ UNCHANGED Reviews
          ELSE IF PKConflict(Reviews, row)
          THEN /\ \E st \in ConstraintErrorStatus :
                     Answer(req, [status |-> st, error |-> "IntegrityError",
                                  body |-> <<>>])
               /\ UNCHANGED Reviews
          ELSE /\ Answer(req, [status |-> 201, error |-> "",
                               body |-> <<ItemDocument("Review", row)>>])
               /\ Reviews' = Append(Reviews, row)
    /\ UNCHANGED <<nextId, nextPubId, People, Books, Publishers, logged>>

PublisherKwargs ==
    {[name |-> <<"posted">>],
     [name |-> <<"posted">>, custom_field |-> <<"mine">>],
     [custom_field |-> <<"mine">>]}

\* POST /api/Publishers
PostPublisher(kwargs) ==
    /\ Serving
    /\ "Publisher" \in exposed
    /\ LET row == [Publisher__init__(kwargs) EXCEPT !.id = IntId(nextPubId)]
           req == [method |-> "POST", resource |-> "Publisher",
                   endpoint |-> "collection", args |-> kwargs]
       IN /\ Answer(req, [status |-> 201, error |-> "",
                          body |-> <<ItemDocument("Publisher", row)>>])
          /\ Publishers' = Append(Publishers, row)
    /\ nextPubId' = nextPubId + 1
    /\ UNCHANGED <<nextId, People, Books, Reviews, logged>>

RemoveAt(s, k) == SubSeq(s, 1, k - 1) \o SubSeq(s, k + 1, Len(s))

\* PATCH or DELETE addressed to the Review collection (k = 0) or to item k.
ReviewWrite(method, k) ==
    /\ Serving
    /\ "Review" \in exposed
    /\ LET req == [method |-> method, resource |-> "Review",
                   endpoint |-> IF k = 0 THEN "collection" ELSE "item",
                   args |-> [id |-> IF k = 0 THEN NULL
                                    ELSE jsonapi_id("Review", Reviews[k])]]
       IN IF method \notin HttpMethods("Review") \/ k = 0
          THEN Answer(req, MethodNotAllowed) /\ UNCHANGED Reviews
          ELSE IF method = "DELETE"
          THEN Answer(req, NoContent) /\ Reviews' = RemoveAt(Reviews, k)
          ELSE /\ Reviews' = [Reviews EXCEPT ![k].review = <<"patched">>]
               /\ Answer(req, [status |-> 200, error |-> "",
                               body |-> <<ItemDocument("Review", Reviews'[k])>>])
    /\ UNCHANGED <<nextId, nextPubId, People, Books, Publishers, logged>>

\* DELETE /api/People/<id>: session.delete(person) and commit.  A relationship
\* with "delete" in its cascade deletes the children; otherwise the child's
\* foreign key is set to NULL, which fails for a primary-key column.
DeletePerson(k) ==
    /\ Serving
    /\ "Person" \in exposed
    /\ LET id == People[k].id
           owned == {r \in Range(Reviews) : r.reader_id = id}
           req == [method |-> "DELETE", resource |-> "Person",
                   endpoint |-> "item", args |-> [id |-> id]]
       IN IF "DELETE" \notin HttpMethods("Person")
          THEN Answer(req, MethodNotAllowed) /\ UNCHANGED <<People, Books, Reviews>>
          ELSE IF "delete" \notin Person_reviews_cascade /\ owned # {}
          THEN /\ Answer(req, [status |-> 500, error |-> "AssertionError",
                               body |-> <<>>])
               /\ UNCHANGED <<People, Books, Reviews>>
          ELSE /\ Answer(req, NoContent)
               /\ People' = RemoveAt(People, k)
               /\ Reviews' = SelectSeq(Reviews, LAMBDA r : r.reader_id # id)
               /\ Books' = [b \in 1..Len(Books) |->
                    [Books[b] EXCEPT
                       !.reader_id =
                          IF @ = id /\ "delete" \notin Person_books_read_cascade
                          THEN NULL ELSE @,
                       !.author_id =
                          IF @ = id /\ "delete" \notin Person_books_written_cascade
                          THEN NULL ELSE @]]
    /\ UNCHANGED <<nextId, nextPubId, Publishers, logged>>

\* GET or POST /api/People/my_rpc: the value my_rpc returns is sent as the
\* body of a success response.
MyRpc(method, pageno, raises) ==
    /\ Serving
    /\ "Person" \in exposed
    /\ LET offset == pageno * PageLimit
           out == my_rpc(People, offset, PageLimit, raises)
           req == [method |-> method, resource |-> "Person", endpoint |-> "my_rpc",
                   args |-> [offset |-> offset, limit |-> PageLimit,
                             raises |-> raises]]
       IN /\ Answer(req, [status |-> 200, error |-> "", body |-> out.response])
          /\ logged' = IF out.logged THEN logged + 1 ELSE logged
    /\ UNCHANGED <<nextId, nextPubId, People, Books, Publishers, Reviews>>

Next ==
    \/ start_api
    \/ seed_iteration
    \/ seed_done
    \/ expose_object
    \/ app_run
    \/ \E model \in Models, pageno \in 0..MaxPage :
          \E flt \in FilterArgs(model) : GetCollection(model, flt, pageno)
    \/ \E model \in Models : \E k \in 0..Len(Table(model)) : GetItem(model, k)
    \/ \E reader_id \in Ids(People) \cup {GhostId}, book_id \in Ids(Books) :
          PostReview(reader_id, book_id)
    \/ \E kwargs \in PublisherKwargs : PostPublisher(kwargs)
    \/ \E method \in {"PATCH", "DELETE"}, k \in 0..Len(Reviews) :
          ReviewWrite(method, k)
    \/ \E k \in 1..Len(People) : DeletePerson(k)
    \/ \E method \in {"GET", "POST"}, pageno \in 0..MaxPage, raises \in BOOLEAN :
          MyRpc(method, pageno, raises)

Spec == Init /\ [][Next]_vars

(***************************************************************************)
(* Properties                                                              *)
(***************************************************************************)
Documents == Range(response.body)

Items == UNION {Range(d.data) : d \in Documents}

IsRequest(method, resource, endpoint) ==
    /\ request.method = method
    /\ request.resource = resource
    /\ request.endpoint = endpoint

\* C1: no response payload (item GET, collection GET, Publisher.to_dict,
\* Person.my_rpc) carries a column declared as HiddenColumn, neither under its
\* name nor as a value under another name; every seeded reader has a
\* non-empty password.
C1_HiddenNeverSerialized ==
    /\ \A p \in Range(People) : p.name[1] = "Reader " => p.password # <<>>
    /\ \A item \in Items :
          /\ \A c \in Columns(item.type) :
                ColumnClass[item.type][c] = "HiddenColumn"
                    => c \notin DOMAIN item.attributes
          /\ \A a \in DOMAIN item.attributes, p \in Range(People) :
                p.password # <<>> => item.attributes[a] # p.password

\* A response of my_rpc that carries a reader whose stored password is set.
C1_Witness ==
    /\ request.endpoint = "my_rpc"
    /\ \E item \in Items, p \in Range(People) :
          item.type = "Person" /\ item.id = p.id /\ p.password # <<>>

\* C2: a POST of a Review whose reader_id matches no Person row is answered
\* with a client error and adds no Review row.
C2_GhostReaderRejected ==
    (/\ IsRequest("POST", "Review", "collection")
     /\ request.args.reader_id \notin Ids(People))
        => /\ response.status \in 400..499
           /\ \A r \in Range(Reviews) : r.reader_id # request.args.reader_id

SamePair(r, q) == r.reader_id = q.reader_id /\ r.book_id = q.book_id

\* C3: no two Review rows share (reader_id, book_id), and a POST for a pair
\* that already has a row leaves the Reviews table as it was.
C3_ReviewPairUnique ==
    /\ [](\A a, b \in 1..Len(Reviews) :
             a # b => ~SamePair(Reviews[a], Reviews[b]))
    /\ [][(/\ served' = served + 1
           /\ request'.method = "POST"
           /\ request'.resource = "Review"
           /\ \E r \in Range(Reviews) : SamePair(r, request'.args))
              => Reviews' = Reviews]_vars

\* A POST for a pair that already had a row was refused.
C3_Witness ==
    /\ IsRequest("POST", "Review", "collection")
    /\ response.status # 201
    /\ Cardinality({k \in 1..Len(Reviews) : SamePair(Reviews[k], request.args)}) = 1

\* C4: a PATCH or DELETE addressed to the Review collection or to a Review
\* item is answered 405 and changes no Review row; GET and POST addressed to
\* Review are not answered 405.
C4_ReviewVerbs ==
    [][(served' = served + 1 /\ request'.resource = "Review")
          => IF request'.method \in {"PATCH", "DELETE"}
             THEN response'.status = 405 /\ Reviews' = Reviews
             ELSE request'.method \in {"GET", "POST"} /\ response'.status # 405]_vars

\* A DELETE of an existing Review item was refused.
C4_Witness ==
    /\ IsRequest("DELETE", "Review", "item")
    /\ response.status = 405
    /\ Reviews # <<>>

\* The documents the collection endpoints produce for a page.
CollectionDocument(model, flt, offset, limit) ==
    (IF model = "Review" THEN Review_get(Query(model, flt), offset, limit)
     ELSE SAFRSRestAPI_get(model, Query(model, flt), offset, limit)).body[1]

RpcDocument(offset, limit) == my_rpc(People, offset, limit, FALSE).response[1]

DocIds(doc) == {item.id : item \in Range(doc.data)}

RowIds(model, rows) == {jsonapi_id(model, r) : r \in Range(rows)}

\* The pages of one endpoint partition the ids of rows, and each reports the
\* total.  A page is <<number, ids, count>>; pages 0..Len(rows) cover every
\* row for any limit >= 1.
Paged(Doc(_, _), model, rows) ==
    \A limit \in 1..PageLimit :
       LET pages == {LET d == Doc(n * limit, limit)
                     IN <<n, DocIds(d), d.count>> : n \in 0..(Len(rows) + 1)}
       IN /\ \A p, q \in pages : q[1] = p[1] + 1 => p[2] \cap q[2] = {}
          /\ \A p \in pages : p[3] = Cardinality(RowIds(model, rows))
          /\ UNION {p[2] : p \in pages} = RowIds(model, rows)

C6_RpcFailureIsServerError ==
    (request.endpoint = "my_rpc" /\ request.args.raises)
        => response.status \in 500..599 /\ logged > 0

Bootstrapped ==
    /\ starts = 1
    /\ i = NR_INSTANCES
    /\ exposed = Models

\* C7: start_api runs once and has finished (all seed commits, all four models
\* exposed) before any request is served; once serving, no bootstrap step runs.
C7_BootstrapBeforeServing ==
    /\ [](starts <= 1)
    /\ []((pc = "serving" \/ served > 0) => (pc = "serving" /\ Bootstrapped))
    /\ [][pc = "serving"
            => /\ pc' = "serving"
               /\ i' = i /\ starts' = starts /\ exposed' = exposed
               /\ (served' = served => store' = store)]_vars

C7_Witness == pc = "serving" /\ served > 0 /\ response.status = 200

FirstCount(model) ==
    /\ served = 1
    /\ IsRequest("GET", model, "collection")
    /\ request.args.filter = <<>>
    /\ response.status = 200

\* C8 as stated: after bootstrap every collection reports NR_INSTANCES rows.
C8_EveryCountIsN ==
    \A model \in Models :
       FirstCount(model) => response.body[1].count = NR_INSTANCES

\* C8 as amended: after bootstrap the People collection reports
\* 2 * NR_INSTANCES rows (a reader and an author per iteration); Books,
\* Publishers and Reviews report NR_INSTANCES.
C8_SeedCounts ==
    \A model \in Models :
       FirstCount(model) =>
          response.body[1].count =
             IF model = "Person" THEN 2 * NR_INSTANCES ELSE NR_INSTANCES

C8_Witness ==
    FirstCount("Person") /\ response.body[1].count = 2 * NR_INSTANCES

\* C9: after a DELETE of a Person no Review has that Person's id as reader_id,
\* and every remaining Review's reader_id is the id of a Person row.
C9_CascadeKeepsReaders ==
    (IsRequest("DELETE", "Person", "item") /\ response.status = 204)
        => \A r \in Range(Reviews) :
              r.reader_id # request.args.id /\ r.reader_id \in Ids(People)

\* C10: no Publisher row stores custom_field, and every serialized Publisher is
\* the base serialization of its row plus custom_field = "some customization",
\* whatever custom_field the constructor was given.
C10_CustomFieldOutputOnly ==
    /\ \A p \in Range(Publishers) : DOMAIN p = Columns("Publisher")
    /\ \A item \in Items :
          item.type = "Publisher" =>
             LET a == item.attributes
             IN /\ "custom_field" \in DOMAIN a
                /\ a["custom_field"] = <<"some customization">>
                /\ \E p \in Range(Publishers) :
                      /\ p.id = item.id
                      /\ Restrict(a, DOMAIN a \ {"custom_field"})
                            = SAFRSBase_to_dict("Publisher", p)

\* A Publisher was created with a custom_field of the caller's.
C10_Witness ==
    /\ IsRequest("POST", "Publisher", "collection")
    /\ response.status = 201
    /\ "custom_field" \in DOMAIN request.args
    /\ request.args["custom_field"] # <<"some customization">>
    /\ Items # {}

====
